---------------------------- MODULE Spec2Model ----------------------------
(***************************************************************************)
(* Model of scrape_for_n8n.py: the chat-identifier parser                  *)
(* (parse_chat_identifier) and the scrape coroutine (connect, resolve,     *)
(* time-windowed fetch loop, disconnect, JSON emission).                   *)
(*                                                                         *)
(* Python strings are sequences of one-character strings.  None is the     *)
(* empty tuple and a present value v is the one-element tuple <<v>>, so    *)
(* that None never equals a value, 0 included.                             *)
(***************************************************************************)
EXTENDS Integers, Sequences, FiniteSets, TLC

\* ------------------------------------------------------------- bounds
\* Longest free-form tail of a raw chat string (after the optional link prefix).
MaxLen == 4
\* Longest history the Telegram collaborator yields in one run.
MaxMsgs == 3
\* Message timestamps are 1..MaxDate; the clock reads MaxDate + 1.
MaxDate == 3

\* ------------------------------------------------------------- values
None == <<>>
Some(v) == <<v>>
IsNone(o) == o = <<>>
Val(o) == o[1]

\* ------------------------------------------------------------- strings
Whitespace == {" "}
Digits == {"0", "7"}
DigitVal(c) == IF c = "7" THEN 7 ELSE 0
\* Characters of the free-form tail: a letter, two digits, a sign, the path
\* separator, the query separator and an opening bracket.
TailChars == {"a", "0", "7", "-", "/", "?", "["}

HttpPrefix == <<"h", "t", "t", "p", ":", "/", "/">>
HttpsPrefix == <<"h", "t", "t", "p", "s", ":", "/", "/">>
Host == <<"t", ".", "m", "e">>

RECURSIVE SeqsUpTo(_, _)
SeqsUpTo(S, n) ==
    IF n = 0 THEN {<<>>}
    ELSE LET shorter == SeqsUpTo(S, n - 1)
         IN  shorter \cup {Append(s, c) : s \in {t \in shorter : Len(t) = n - 1}, c \in S}

StartsWith(s, p) == Len(s) >= Len(p) /\ SubSeq(s, 1, Len(p)) = p
Contains(s, c) == \E i \in 1..Len(s) : s[i] = c
\* Index of the first character of s that is in cs, or Len(s) + 1 when there is none.
FirstOf(s, cs) ==
    IF \E i \in 1..Len(s) : s[i] \in cs
    THEN CHOOSE i \in 1..Len(s) : s[i] \in cs /\ \A j \in 1..(i - 1) : s[j] \notin cs
    ELSE Len(s) + 1
Before(s, i) == SubSeq(s, 1, i - 1)
From(s, i) == SubSeq(s, i, Len(s))

\* str.strip(): leading and trailing whitespace removed.
RECURSIVE LStrip(_)
LStrip(s) == IF s # <<>> /\ s[1] \in Whitespace THEN LStrip(Tail(s)) ELSE s
RECURSIVE RStrip(_)
RStrip(s) ==
    IF s # <<>> /\ s[Len(s)] \in Whitespace THEN RStrip(SubSeq(s, 1, Len(s) - 1)) ELSE s
\* Mutant: lstrip() in place of strip().
StripLeftOnly(s) == LStrip(s)
Strip(s) == RStrip(LStrip(s))

\* str.split(sep): the pieces between separators, empty pieces included.
RECURSIVE Split(_, _)
Split(s, sep) ==
    LET i == FirstOf(s, {sep})
    IN  IF i > Len(s) THEN <<s>> ELSE <<Before(s, i)>> \o Split(From(s, i + 1), sep)

\* [p for p in xs if p]
RECURSIVE NonEmpty(_)
NonEmpty(xs) ==
    IF xs = <<>> THEN <<>>
    ELSE IF Head(xs) = <<>> THEN NonEmpty(Tail(xs))
    ELSE <<Head(xs)>> \o NonEmpty(Tail(xs))

\* int(s): surrounding whitespace is dropped, one leading sign is allowed, and
\* what remains must be one or more decimal digits; anything else is a
\* ValueError.  The result is [ok |-> FALSE] or [ok |-> TRUE, val |-> n].
\* (Underscore separators and non-ASCII digits, which int() also accepts, are
\* not among the characters used.)
RECURSIVE DigitsValue(_)
DigitsValue(ds) ==
    IF ds = <<>> THEN 0 ELSE 10 * DigitsValue(SubSeq(ds, 1, Len(ds) - 1)) + DigitVal(ds[Len(ds)])
IntOf(s) ==
    LET t == Strip(s)
        signed == t # <<>> /\ t[1] \in {"-", "+"}
        ds == IF signed THEN Tail(t) ELSE t
    IN  IF ds = <<>> \/ \E i \in 1..Len(ds) : ds[i] \notin Digits
        THEN [ok |-> FALSE, val |-> 0]
        ELSE [ok |-> TRUE, val |-> IF signed /\ t[1] = "-" THEN 0 - DigitsValue(ds) ELSE DigitsValue(ds)]

\* urllib.parse.urlparse(url) for a url that starts with http:// or https://:
\* the scheme ends at the first ":", the network location runs from the "//"
\* to the first of "/", "?" and "#", a network location with an unmatched
\* bracket is a ValueError ("Invalid IPv6 URL"), and the path is what follows
\* the network location up to the first "#" or "?".  (";", which starts the
\* parameters of the last segment, is not among the characters used.)
UrlParse(url) ==
    LET rest == From(url, FirstOf(url, {":"}) + 1)
        hasNetloc == StartsWith(rest, <<"/", "/">>)
        afterSlashes == IF hasNetloc THEN From(rest, 3) ELSE rest
        cut == FirstOf(afterSlashes, {"/", "?", "#"})
        netloc == IF hasNetloc THEN Before(afterSlashes, cut) ELSE <<>>
        tail == IF hasNetloc THEN From(afterSlashes, cut) ELSE rest
        noFragment == Before(tail, FirstOf(tail, {"#"}))
        path == Before(noFragment, FirstOf(noFragment, {"?"}))
    IN  IF Contains(netloc, "[") # Contains(netloc, "]")
        THEN [ok |-> FALSE, path |-> <<>>]
        ELSE [ok |-> TRUE, path |-> path]


\* ------------------------------------------------- parse_chat_identifier
\* identifier.startswith(("http://", "https://"))
IsUrl(identifier) == StartsWith(identifier, HttpPrefix) \/ StartsWith(identifier, HttpsPrefix)

\* Mutant: the "if p" filter is missing.
PathPartsUnfiltered(path) == Split(path, "/")

\* [p for p in parsed.path.split("/") if p]
PathParts(path) == NonEmpty(Split(path, "/"))

\* Mutant: the "topic_id is None" test is missing, so the link overrides.
TopicFromPartsLinkWins(parts, topic_id_env) ==
    IF Len(parts) >= 2
    THEN LET n == IntOf(parts[2]) IN IF n.ok THEN Some(n.val) ELSE topic_id_env
    ELSE topic_id_env

\* Mutant: int(parts[0]) in place of int(parts[1]).
TopicFromPartsFirstSegment(parts, topic_id_env) ==
    IF Len(parts) >= 2 /\ IsNone(topic_id_env)
    THEN LET n == IntOf(parts[1]) IN IF n.ok THEN Some(n.val) ELSE topic_id_env
    ELSE topic_id_env

\* The topic id after the link's second segment has been looked at: int(parts[1])
\* when there is a second segment and no topic id yet, the ValueError swallowed.
TopicFromParts(parts, topic_id_env) ==
    IF Len(parts) >= 2 /\ IsNone(topic_id_env)
    THEN LET n == IntOf(parts[2]) IN IF n.ok THEN Some(n.val) ELSE topic_id_env
    ELSE topic_id_env

\* parse_chat_identifier(raw_identifier, topic_id_env): the returned pair, or
\* raised = TRUE when the call ends in an exception (urlparse's ValueError is
\* outside the try block, which guards int() alone).
ParseChatIdentifier(raw_identifier, topic_id_env) ==
    LET stripped == Strip(raw_identifier)
        parsed == UrlParse(stripped)
        parts == PathParts(parsed.path)
    IN  IF ~IsUrl(stripped)
        THEN [raised |-> FALSE, identifier |-> stripped, topic_id |-> topic_id_env]
        ELSE IF ~parsed.ok
        THEN [raised |-> TRUE, identifier |-> stripped, topic_id |-> topic_id_env]
        ELSE IF parts = <<>>
        THEN [raised |-> FALSE, identifier |-> stripped, topic_id |-> topic_id_env]
        ELSE [raised |-> FALSE, identifier |-> parts[1],
              topic_id |-> TopicFromParts(parts, topic_id_env)]

\* ------------------------------------------------------------- state
VARIABLES
    chat,            \* args.chat
    topic_id_arg,    \* args.topic_id
    days,            \* args.days
    phone_or_token,  \* args.phone_or_token
    pc,              \* where the run is
    chat_identifier, \* the parsed identifier
    topic_id,        \* the parsed topic id
    cutoff,          \* now_utc - days, None until computed
    feed,            \* what client.iter_messages will yield, in order
    pos,             \* how many items the loop has requested from the iterator
    rows,            \* the records collected so far
    stdout,          \* the JSON values written to standard output
    calls,           \* the collaborator calls made so far, in order
    caught,          \* the get_entity error the except clause caught, or None
    exc              \* the exception the run ended with, or None

vars == <<chat, topic_id_arg, days, phone_or_token, pc, chat_identifier, topic_id,
          cutoff, feed, pos, rows, stdout, calls, caught, exc>>

args == <<chat, topic_id_arg, days, phone_or_token>>
run == <<cutoff, feed, pos, rows, stdout, calls, caught, exc>>

\* ------------------------------------------------------------- inputs
Pads == {<<>>, <<" ">>}
LinkPrefixes == {<<>>, HttpsPrefix, HttpPrefix \o Host \o <<"/">>, HttpsPrefix \o Host \o <<"/">>}
RawChats ==
    {pad \o prefix \o tail \o pad :
        pad \in Pads, prefix \in LinkPrefixes, tail \in SeqsUpTo(TailChars, MaxLen)}
TopicArgs == {None, Some(5)}

\* ------------------------------------- the parser on its own (SpecParse)
InitParse ==
    /\ chat \in RawChats
    /\ topic_id_arg \in TopicArgs
    /\ days = 0
    /\ phone_or_token = None
    /\ pc = "ParseCalled"
    /\ chat_identifier = None
    /\ topic_id = None
    /\ cutoff = None
    /\ feed = <<>>
    /\ pos = 0
    /\ rows = <<>>
    /\ stdout = <<>>
    /\ calls = <<>>
    /\ caught = None
    /\ exc = None

ParseReturns ==
    LET r == ParseChatIdentifier(chat, topic_id_arg)
    IN  /\ pc = "ParseCalled"
        /\ ~r.raised
        /\ pc' = "ParseReturned"
        /\ chat_identifier' = Some(r.identifier)
        /\ topic_id' = r.topic_id
        /\ UNCHANGED <<args, run>>

ParseRaises ==
    LET r == ParseChatIdentifier(chat, topic_id_arg)
    IN  /\ pc = "ParseCalled"
        /\ r.raised
        /\ pc' = "ParseRaised"
        /\ exc' = Some([type |-> "ValueError", names |-> None])
        /\ UNCHANGED <<args, chat_identifier, topic_id, cutoff, feed, pos, rows, stdout, calls, caught>>

NextParse == ParseReturns \/ ParseRaises

SpecParse == InitParse /\ [][NextParse]_vars



\* ------------------------------------------------------------- scrape
\* Python values kept in a record, tagged with their type: json.dump writes an
\* int and a bool differently although 1 == True.
PyNone == <<"none">>
PyIntV(n) == <<"int", n>>
PyBool(b) == <<"bool", b>>
PyStr(x) == <<"str", x>>

\* json.dump of one Python value: None is null, a bool is true or false, an int
\* is a number, a str is a string.
JsonEncode(v) ==
    IF v[1] = "none" THEN <<"null">>
    ELSE IF v[1] = "bool" THEN (IF v[2] THEN <<"true">> ELSE <<"false">>)
    ELSE IF v[1] = "int" THEN <<"number", v[2]>>
    ELSE <<"string", v[2]>>

\* json.dump of the list of rows: a JSON array of objects, in list order.
JsonDump(rs) ==
    [i \in 1..Len(rs) |-> [k \in DOMAIN rs[i] |-> JsonEncode(rs[i][k])]]

\* The exceptions get_entity raises that scrape catches, and one it does not.
NamedErrors == {"UsernameInvalidError", "UsernameNotOccupiedError", "ChannelPrivateError"}
OtherError == "CollaboratorError"

\* What iter_messages can yield: an object that is no Message, a Message
\* without a date, or a dated Message, which is a service message (action set,
\* no text) or a user message (text, no action).  id is the place in the feed.
Dates == 1..MaxDate
Shapes ==
    {[is_message |-> FALSE, date |-> None, action |-> None, message |-> None],
     [is_message |-> TRUE, date |-> None, action |-> None, message |-> Some("hi")]}
    \cup {[is_message |-> TRUE, date |-> Some(d), action |-> None, message |-> Some("hi")] : d \in Dates}
    \cup {[is_message |-> TRUE, date |-> Some(d), action |-> Some("pin"), message |-> None] : d \in Dates}
Feeds ==
    {[i \in 1..Len(sh) |->
        [id |-> i, is_message |-> sh[i].is_message, date |-> sh[i].date,
         action |-> sh[i].action, message |-> sh[i].message]] : sh \in SeqsUpTo(Shapes, MaxMsgs)}

\* msg.date.isoformat()
IsoFormat(d) == <<"iso", d>>

\* Mutant: the test is inverted.
IsServiceInverted(msg) == IF IsNone(msg.action) THEN PyIntV(1) ELSE PyIntV(0)

\* "is_service": 1 if msg.action is not None else 0
IsService(msg) == IF ~IsNone(msg.action) THEN PyIntV(1) ELSE PyIntV(0)

\* The dict appended for a retained message.  The sender and reply fields are
\* copied from the message as they are; the feed leaves them None.
Row(identifier, msg) ==
    [chat_identifier |-> PyStr(identifier),
     message_id |-> PyIntV(msg.id),
     date |-> PyStr(IsoFormat(Val(msg.date))),
     sender_id |-> PyNone,
     sender_username |-> PyNone,
     text |-> IF IsNone(msg.message) THEN PyStr("") ELSE PyStr(Val(msg.message)),
     reply_to_msg_id |-> PyNone,
     is_service |-> IsService(msg)]

\* Mutant: <= in place of <.
TooOldInclusive(msg, limit) == Val(msg.date) <= limit

\* The three tests at the top of the loop body.
Skipped(msg) == ~msg.is_message \/ IsNone(msg.date)
TooOld(msg, limit) == Val(msg.date) < limit

\* The command lines tried: a padded plain handle with --topic-id, a topic
\* link with --phone-or-token, and a link urlparse rejects.
ArgSets ==
    {[chat |-> <<" ", "a", " ">>, topic_id |-> Some(5), phone_or_token |-> None],
     [chat |-> HttpsPrefix \o Host \o <<"/", "a", "/", "7">>, topic_id |-> None,
      phone_or_token |-> Some("+1")],
     [chat |-> HttpsPrefix \o <<"[">>, topic_id |-> None, phone_or_token |-> None]}

Init ==
    /\ \E a \in ArgSets :
        /\ chat = a.chat
        /\ topic_id_arg = a.topic_id
        /\ phone_or_token = a.phone_or_token
    /\ days \in 1..MaxDate
    /\ pc = "Idle"
    /\ chat_identifier = None
    /\ topic_id = None
    /\ cutoff = None
    /\ feed = <<>>
    /\ pos = 0
    /\ rows = <<>>
    /\ stdout = <<>>
    /\ calls = <<>>
    /\ caught = None
    /\ exc = None

\* asyncio.run(scrape(args))
Invoke ==
    /\ pc = "Idle"
    /\ pc' = "Parsing"
    /\ UNCHANGED <<args, chat_identifier, topic_id, run>>

ParseIdentifier ==
    LET r == ParseChatIdentifier(chat, topic_id_arg)
    IN  /\ pc = "Parsing"
        /\ ~r.raised
        /\ pc' = "Connecting"
        /\ chat_identifier' = Some(r.identifier)
        /\ topic_id' = r.topic_id
        /\ UNCHANGED <<args, run>>

ParseIdentifierRaises ==
    LET r == ParseChatIdentifier(chat, topic_id_arg)
    IN  /\ pc = "Parsing"
        /\ r.raised
        /\ pc' = "Failed"
        /\ exc' = Some([type |-> "ValueError", names |-> None])
        /\ UNCHANGED <<args, chat_identifier, topic_id, cutoff, feed, pos, rows, stdout, calls, caught>>

\* "if phone_or_token": None and the empty string are both false.
Truthy(o) == ~IsNone(o) /\ Val(o) # ""

\* client.start(phone=phone_or_token) when one was given, client.start() otherwise.
StartCall == IF Truthy(phone_or_token) THEN <<"start", phone_or_token>> ELSE <<"start">>

Start ==
    /\ pc = "Connecting"
    /\ calls' = Append(calls, StartCall)
    /\ pc' = "Resolving"
    /\ UNCHANGED <<args, chat_identifier, topic_id, cutoff, feed, pos, rows, stdout, caught, exc>>

\* Mutant: a failed start is tried again.
StartRetries ==
    /\ pc = "Connecting"
    /\ calls' = Append(calls, StartCall)
    /\ pc' = "Connecting"
    /\ UNCHANGED <<args, chat_identifier, topic_id, cutoff, feed, pos, rows, stdout, caught, exc>>

StartRaises ==
    /\ pc = "Connecting"
    /\ calls' = Append(calls, StartCall)
    /\ pc' = "Failed"
    /\ exc' = Some([type |-> OtherError, names |-> None])
    /\ UNCHANGED <<args, chat_identifier, topic_id, cutoff, feed, pos, rows, stdout, caught>>

\* iter_messages(entity, reverse=False, **iter_kwargs)
IterCall == IF ~IsNone(topic_id) THEN <<"iter_messages", "reply_to", Val(topic_id)>> ELSE <<"iter_messages">>

\* get_entity returns: the cutoff is computed from the clock (which reads
\* MaxDate + 1, after every message), the iterator is made, and the history it
\* will yield is whatever the chat holds.
GetEntity ==
    /\ pc = "Resolving"
    /\ calls' = calls \o <<<<"get_entity", Val(chat_identifier)>>, IterCall>>
    /\ cutoff' = Some((MaxDate + 1) - days)
    /\ feed' \in Feeds
    /\ rows' = <<>>
    /\ pc' = "Fetching"
    /\ UNCHANGED <<args, chat_identifier, topic_id, pos, stdout, caught, exc>>

\* get_entity raises one of the three caught errors: control is in the handler.
GetEntityDenied ==
    /\ pc = "Resolving"
    /\ \E e \in NamedErrors : caught' = Some(e)
    /\ calls' = Append(calls, <<"get_entity", Val(chat_identifier)>>)
    /\ pc' = "DisconnectingThenFail"
    /\ UNCHANGED <<args, chat_identifier, topic_id, cutoff, feed, pos, rows, stdout, exc>>

\* Mutant: the handler raises without disconnecting.
HandlerRaiseOnly ==
    /\ pc = "DisconnectingThenFail"
    /\ exc' = Some([type |-> "RuntimeError", names |-> chat_identifier])
    /\ pc' = "Failed"
    /\ UNCHANGED <<args, chat_identifier, topic_id, cutoff, feed, pos, rows, stdout, calls, caught>>

\* The handler: await client.disconnect(), then raise RuntimeError naming the chat.
HandlerDisconnectAndRaise ==
    /\ pc = "DisconnectingThenFail"
    /\ calls' = Append(calls, <<"disconnect">>)
    /\ exc' = Some([type |-> "RuntimeError", names |-> chat_identifier])
    /\ pc' = "Failed"
    /\ UNCHANGED <<args, chat_identifier, topic_id, cutoff, feed, pos, rows, stdout, caught>>

\* get_entity raises anything else: nothing catches it.
GetEntityRaises ==
    /\ pc = "Resolving"
    /\ calls' = Append(calls, <<"get_entity", Val(chat_identifier)>>)
    /\ exc' = Some([type |-> OtherError, names |-> None])
    /\ pc' = "Failed"
    /\ UNCHANGED <<args, chat_identifier, topic_id, cutoff, feed, pos, rows, stdout, caught>>

\* Mutant: break in place of continue for an item that is skipped.
FetchItemBreaksOnSkip ==
    /\ pc = "Fetching"
    /\ pos < Len(feed)
    /\ pos' = pos + 1
    /\ LET msg == feed[pos + 1]
       IN  IF Skipped(msg) \/ TooOld(msg, Val(cutoff))
           THEN pc' = "Disconnecting" /\ UNCHANGED rows
           ELSE rows' = Append(rows, Row(Val(chat_identifier), msg)) /\ UNCHANGED pc
    /\ UNCHANGED <<args, chat_identifier, topic_id, cutoff, feed, stdout, calls, caught, exc>>

\* One turn of the async for: the next item is requested and the body runs.
FetchItem ==
    /\ pc = "Fetching"
    /\ pos < Len(feed)
    /\ pos' = pos + 1
    /\ LET msg == feed[pos + 1]
       IN  IF Skipped(msg)
           THEN UNCHANGED <<rows, pc>>
           ELSE IF TooOld(msg, Val(cutoff))
           THEN pc' = "Disconnecting" /\ UNCHANGED rows
           ELSE rows' = Append(rows, Row(Val(chat_identifier), msg)) /\ UNCHANGED pc
    /\ UNCHANGED <<args, chat_identifier, topic_id, cutoff, feed, stdout, calls, caught, exc>>

\* The iterator is exhausted: the loop ends.
FetchExhausted ==
    /\ pc = "Fetching"
    /\ pos = Len(feed)
    /\ pc' = "Disconnecting"
    /\ UNCHANGED <<args, chat_identifier, topic_id, cutoff, feed, pos, rows, stdout, calls, caught, exc>>

\* Requesting the next item raises (network, flood wait): nothing catches it.
FetchRaises ==
    /\ pc = "Fetching"
    /\ exc' = Some([type |-> OtherError, names |-> None])
    /\ pc' = "Failed"
    /\ UNCHANGED <<args, chat_identifier, topic_id, cutoff, feed, pos, rows, stdout, calls, caught>>

\* await client.disconnect() after the loop.  disconnect sends no request; it
\* is taken to return, here and in the handler.
Disconnect ==
    /\ pc = "Disconnecting"
    /\ calls' = Append(calls, <<"disconnect">>)
    /\ pc' = "Emitting"
    /\ UNCHANGED <<args, chat_identifier, topic_id, cutoff, feed, pos, rows, stdout, caught, exc>>

Emit ==
    /\ pc = "Emitting"
    /\ stdout' = Append(stdout, JsonDump(rows))
    /\ pc' = "Done"
    /\ UNCHANGED <<args, chat_identifier, topic_id, cutoff, feed, pos, rows, calls, caught, exc>>

Next ==
    \/ Invoke
    \/ ParseIdentifier
    \/ ParseIdentifierRaises
    \/ Start
    \/ StartRaises
    \/ GetEntity
    \/ GetEntityDenied
    \/ HandlerDisconnectAndRaise
    \/ GetEntityRaises
    \/ FetchItem
    \/ FetchExhausted
    \/ FetchRaises
    \/ Disconnect
    \/ Emit

Spec == Init /\ [][Next]_vars

\* =====================================================================
\* Properties of parse_chat_identifier, checked under SpecParse.
\* =====================================================================
Returned == pc = "ParseReturned"
Link(slugAndRest) == HttpsPrefix \o Host \o <<"/">> \o slugAndRest
\* What follows https://t.me/ in the raw string, when it is such a link.
AfterHost == From(chat, Len(Link(<<>>)) + 1)
IsTopicLink == StartsWith(chat, Link(<<>>))
\* A slug: a non-empty path segment (no "/", no "?").
IsSlug(x) == x # <<>> /\ \A i \in 1..Len(x) : x[i] \notin {"/", "?", "#", " "}
\* The decimal integer literals of up to three digits over the digits in use,
\* each with the integer it denotes.
IntLits ==
    {<<<<"0">>, 0>>,
     <<<<"7">>, 7>>,
     <<<<"0", "0">>, 0>>,
     <<<<"0", "7">>, 7>>,
     <<<<"7", "0">>, 70>>,
     <<<<"7", "7">>, 77>>,
     <<<<"0", "0", "0">>, 0>>,
     <<<<"0", "0", "7">>, 7>>,
     <<<<"0", "7", "0">>, 70>>,
     <<<<"0", "7", "7">>, 77>>,
     <<<<"7", "0", "0">>, 700>>,
     <<<<"7", "0", "7">>, 707>>,
     <<<<"7", "7", "0">>, 770>>,
     <<<<"7", "7", "7">>, 777>>,
     <<<<"-", "0">>, 0>>,
     <<<<"-", "7">>, 0 - 7>>,
     <<<<"-", "0", "0">>, 0>>,
     <<<<"-", "0", "7">>, 0 - 7>>,
     <<<<"-", "7", "0">>, 0 - 70>>,
     <<<<"-", "7", "7">>, 0 - 77>>}
IsIntLit(x) == \E l \in IntLits : l[1] = x
LitVal(x) == (CHOOSE l \in IntLits : l[1] = x)[2]
\* The raw string with its surrounding whitespace removed, by position.
Blank(x) == \A i \in 1..Len(x) : x[i] \in Whitespace
Trimmed(x) ==
    IF Blank(x) THEN <<>>
    ELSE LET lo == CHOOSE i \in 1..Len(x) :
                       x[i] \notin Whitespace /\ \A j \in 1..(i - 1) : x[j] \in Whitespace
             hi == CHOOSE i \in 1..Len(x) :
                       x[i] \notin Whitespace /\ \A j \in (i + 1)..Len(x) : x[j] \in Whitespace
         IN  SubSeq(x, lo, hi)
HasScheme(x) == StartsWith(x, HttpPrefix) \/ StartsWith(x, HttpsPrefix)

\* C3: whenever a topic id is supplied from outside, the returned topic id is
\* the supplied one, whatever the raw identifier holds.
C3_SuppliedTopicWins ==
    (Returned /\ ~IsNone(topic_id_arg)) => topic_id = topic_id_arg
\* C3's case: a topic id was supplied and the link carries a different integer.
C3_Witness ==
    /\ Returned
    /\ ~IsNone(topic_id_arg)
    /\ IsTopicLink
    /\ \E i \in 1..Len(AfterHost) :
        /\ AfterHost[i] = "/"
        /\ IsSlug(Before(AfterHost, i))
        /\ IsIntLit(From(AfterHost, i + 1))
        /\ LitVal(From(AfterHost, i + 1)) # Val(topic_id_arg)

\* C4: for https://t.me/<slug>/<N> with N an integer literal and no supplied
\* topic id, the result is identifier = <slug> and topic_id = N.
C4_TopicLink ==
    (Returned /\ IsNone(topic_id_arg) /\ IsTopicLink) =>
        \A i \in 1..Len(AfterHost) :
            (AfterHost[i] = "/" /\ IsSlug(Before(AfterHost, i)) /\ IsIntLit(From(AfterHost, i + 1)))
            => /\ chat_identifier = Some(Before(AfterHost, i))
               /\ topic_id = Some(LitVal(From(AfterHost, i + 1)))
\* C4's case: such a link was parsed, here with a negative literal.
C4_Witness ==
    /\ Returned
    /\ IsNone(topic_id_arg)
    /\ chat = Link(<<"a", "/", "-", "7">>)
    /\ topic_id = Some(0 - 7)

\* C5: for https://t.me/<slug>/<nonnumeric> with no supplied topic id the result
\* is identifier = <slug> with no topic id, and the call never ends in an error.
C5_NonNumericAndNeverRaises ==
    /\ pc # "ParseRaised"
    /\ (Returned /\ IsNone(topic_id_arg) /\ IsTopicLink) =>
        \A i \in 1..Len(AfterHost) :
            (AfterHost[i] = "/" /\ IsSlug(Before(AfterHost, i))
                /\ IsSlug(From(AfterHost, i + 1)) /\ ~IsIntLit(From(AfterHost, i + 1)))
            => /\ chat_identifier = Some(Before(AfterHost, i))
               /\ IsNone(topic_id)
\* The first half of C5 alone: a non-numeric second segment yields no topic id.
C5_NonNumericSwallowed ==
    (Returned /\ IsNone(topic_id_arg) /\ IsTopicLink) =>
        \A i \in 1..Len(AfterHost) :
            (AfterHost[i] = "/" /\ IsSlug(Before(AfterHost, i))
                /\ IsSlug(From(AfterHost, i + 1)) /\ ~IsIntLit(From(AfterHost, i + 1)))
            => /\ chat_identifier = Some(Before(AfterHost, i))
               /\ IsNone(topic_id)

\* C6 as stated: for a raw identifier that does not begin with http:// or
\* https://, the returned identifier is the input unchanged and the topic id
\* is the one passed in.
C6_PlainUnchanged ==
    (Returned /\ ~HasScheme(chat)) =>
        (chat_identifier = Some(chat) /\ topic_id = topic_id_arg)
\* C6 amended: for a raw identifier whose whitespace-trimmed form does not begin
\* with http:// or https://, the returned identifier is the trimmed input and
\* the topic id is the one passed in.
C6_PlainTrimmed ==
    (Returned /\ ~HasScheme(Trimmed(chat))) =>
        (chat_identifier = Some(Trimmed(chat)) /\ topic_id = topic_id_arg)
\* C6's case: a padded plain handle came back with a supplied topic id.
C6_Witness ==
    /\ Returned
    /\ ~HasScheme(Trimmed(chat))
    /\ Trimmed(chat) # chat
    /\ Trimmed(chat) # <<>>
    /\ ~IsNone(topic_id_arg)

\* C7 as stated: every returned reference has a non-empty identifier, and its
\* topic id, when present, is a positive integer.
C7_NonEmptyPositive ==
    Returned =>
        /\ Val(chat_identifier) # <<>>
        /\ ~IsNone(topic_id) => Val(topic_id) > 0
\* C7 amended: the identifier is empty exactly when the raw string is empty or
\* all whitespace, and the topic id, when present, is an integer, zero and
\* negative ones included: the supplied one, or one read from a link.
C7_NonEmptyUnlessBlank ==
    Returned =>
        /\ Val(chat_identifier) = <<>> <=> Blank(chat)
        /\ ~IsNone(topic_id) =>
            /\ Val(topic_id) \in Int
            /\ topic_id = topic_id_arg \/ (IsNone(topic_id_arg) /\ HasScheme(Trimmed(chat)))
\* C7's case: a link whose second segment is a negative integer was parsed.
C7_Witness ==
    /\ Returned
    /\ HasScheme(chat)
    /\ ~IsNone(topic_id)
    /\ Val(topic_id) < 0

\* =====================================================================
\* Properties of scrape, checked under Spec.
\* =====================================================================
AfterFetch == pc \in {"Disconnecting", "Emitting", "Done"}
Min(a, b) == IF a < b THEN a ELSE b
\* A genuine message with a timestamp: what the loop does not skip.
Dated(m) == m.is_message /\ ~IsNone(m.date)
Ids(f) == [i \in 1..Len(f) |-> f[i].id]
RowIds(rs) == [i \in 1..Len(rs) |-> rs[i].message_id[2]]
EmittedOnce == Len(stdout) = 1
EmittedIds == [i \in 1..Len(stdout[1]) |-> stdout[1][i].message_id[2]]
DisconnectCalls == {i \in 1..Len(calls) : calls[i][1] = "disconnect"}
IterCalls == {i \in 1..Len(calls) : calls[i][1] = "iter_messages"}

\* The feed is made of dated genuine messages, newest first, no two alike in time.
StrictlyDecreasing ==
    /\ \A i \in 1..Len(feed) : Dated(feed[i])
    /\ \A i, j \in 1..Len(feed) : i < j => Val(feed[i].date) > Val(feed[j].date)
\* Length of the longest prefix of the feed inside the window.
PrefixLen ==
    CHOOSE k \in 0..Len(feed) :
        /\ \A i \in 1..k : Val(feed[i].date) >= Val(cutoff)
        /\ k < Len(feed) => Val(feed[k + 1].date) < Val(cutoff)

\* C1: on a feed of genuine messages with strictly decreasing timestamps the
\* records collected and emitted are exactly the longest prefix with timestamp
\* >= cutoff, in feed order, and the loop requests nothing beyond the first
\* message older than the cutoff.
C1_WindowPrefix ==
    (StrictlyDecreasing /\ ~IsNone(cutoff)) =>
        /\ pos <= Min(PrefixLen + 1, Len(feed))
        /\ RowIds(rows) = Ids(SubSeq(feed, 1, Min(pos, PrefixLen)))
        /\ AfterFetch => pos = Min(PrefixLen + 1, Len(feed))
        /\ pc = "Done" => (EmittedOnce /\ EmittedIds = Ids(SubSeq(feed, 1, PrefixLen)))
        /\ pc # "Done" => stdout = <<>>
\* C1's case: a run ended with some messages emitted, the scan stopped at the
\* first old message, and a later message was never requested.
C1_Witness ==
    /\ pc = "Done"
    /\ StrictlyDecreasing
    /\ PrefixLen >= 1
    /\ pos = PrefixLen + 1
    /\ pos < Len(feed)

\* C2: when get_entity fails with one of the three named errors, scrape
\* disconnects and then raises one RuntimeError naming the chat identifier;
\* nothing is raised before the disconnect, no message is fetched and nothing
\* is written to standard output.
C2_ResolutionFailure ==
    ~IsNone(caught) =>
        /\ pc \in {"DisconnectingThenFail", "Failed"}
        /\ pc = "DisconnectingThenFail" => (IsNone(exc) /\ DisconnectCalls = {})
        /\ pc = "Failed" =>
            /\ exc = Some([type |-> "RuntimeError", names |-> chat_identifier])
            /\ ~IsNone(chat_identifier)
            /\ DisconnectCalls = {Len(calls)}
        /\ IterCalls = {}
        /\ pos = 0
        /\ rows = <<>>
        /\ stdout = <<>>
\* C2's case: a run that ended after get_entity raised a named error.
C2_Witness ==
    /\ pc = "Failed"
    /\ ~IsNone(caught)

\* The linear order of the run.
Order == <<"Idle", "Parsing", "Connecting", "Resolving", "Fetching", "Disconnecting", "Emitting", "Done">>
LinearStep == \E i \in 1..(Len(Order) - 1) : pc = Order[i] /\ pc' = Order[i + 1]
LoopStep == pc = "Fetching" /\ pc' = "Fetching"
ResolutionFailureStep ==
    \/ pc = "Resolving" /\ pc' = "DisconnectingThenFail"
    \/ pc = "DisconnectingThenFail" /\ pc' = "Failed"
\* An exception nothing catches: the run ends where it is, with no disconnect
\* and nothing written.
UncaughtStep ==
    /\ pc \in {"Parsing", "Connecting", "Resolving", "Fetching"}
    /\ pc' = "Failed"
    /\ stdout' = stdout
    /\ DisconnectCalls' = {}
\* Emission happens once, from Emitting, after the loop and after the disconnect.
EmissionInOrder ==
    stdout' # stdout =>
        /\ pc = "Emitting" /\ pc' = "Done"
        /\ stdout = <<>>
        /\ Len(stdout') = 1
        /\ DisconnectCalls = {Len(calls)}

\* C8 as stated: every step of a run follows the linear order, the resolution
\* failure being the only edge that leaves it.
C8_LinearOnly ==
    [][(LinearStep \/ LoopStep \/ ResolutionFailureStep) /\ EmissionInOrder]_vars
\* C8 amended: every step follows the linear order, or is the resolution
\* failure (the only error edge that disconnects), or is an exception raised
\* while parsing, connecting, resolving or fetching that ends the run at once
\* without disconnect or output; no state is re-entered, and emission happens
\* at most once, after the loop has ended and after the disconnect.
C8_LinearOrUncaught ==
    [][(LinearStep \/ LoopStep \/ ResolutionFailureStep \/ UncaughtStep) /\ EmissionInOrder]_vars
\* C8's case: a run that failed in the middle of fetching, rows in hand.
C8_Witness ==
    /\ pc = "Failed"
    /\ IsNone(caught)
    /\ rows # <<>>
    /\ stdout = <<>>
    /\ DisconnectCalls = {}

\* The message a written record came from.
SourceOf(rec) == feed[rec.message_id[2]]
IsOld(m) == Dated(m) /\ Val(m.date) < Val(cutoff)
FirstOld ==
    IF \E i \in 1..Len(feed) : IsOld(feed[i])
    THEN CHOOSE i \in 1..Len(feed) : IsOld(feed[i]) /\ \A j \in 1..(i - 1) : ~IsOld(feed[j])
    ELSE Len(feed) + 1
\* C10: an item that is no genuine message or has no timestamp is skipped and
\* the scan goes on; only a dated message older than the cutoff ends it.  The
\* records are, in feed order, the dated genuine messages before that one.
C10_SkipDoesNotStop ==
    ~IsNone(cutoff) =>
        /\ RowIds(rows) = Ids(SelectSeq(SubSeq(feed, 1, Min(pos, FirstOld - 1)), Dated))
        /\ AfterFetch => pos = Min(FirstOld, Len(feed))
        /\ pc = "Done" =>
            (EmittedOnce /\ EmittedIds = Ids(SelectSeq(SubSeq(feed, 1, FirstOld - 1), Dated)))
\* C10's case: something was skipped, a later message was still written, and
\* the scan then ended at an old message.
C10_Witness ==
    /\ pc = "Done"
    /\ FirstOld <= Len(feed)
    /\ \E i, j \in 1..(FirstOld - 1) :
        /\ i < j
        /\ ~Dated(feed[i])
        /\ Dated(feed[j])
==========================================================================
